---- MODULE Spec2Model ----
(***************************************************************************)
(* Waffle puzzle generator: the backtracking word search of                *)
(* waffle_maker.py (build_waffle, candidates_with_constraints, the         *)
(* generate_many driver) and the letter scrambler of waffle_mixer.py       *)
(* (shuffler).                                                             *)
(*                                                                         *)
(* Words are sequences of five letters; Python's 0-based position p of a   *)
(* word w is w[p + 1] here.  random.choice, random.sample and              *)
(* random.shuffle are nondeterministic choices over all their outcomes.    *)
(***************************************************************************)
EXTENDS Integers, Sequences, FiniteSets, TLC

\* ---------------------------------------------------------------- bounds

\* Longest word list handed to build_waffle.
MaxWords == 7
\* Largest max_attempts_per_level tried in a direct call of build_waffle.
MaxAttempts == 1
\* Largest n and max_tries handed to generate_many.
MaxN == 2
MaxTries == 3
\* Longest target handed to shuffler.
MaxLen == 4

\* build_waffle's default max_attempts_per_level, used by generate_many.
DefaultAttempts == 2000

\* ------------------------------------------------------------- word lists

\* The words the lists are drawn from, in the order load_words' sort gives.
\* Six of them make a waffle
\*     a a c a b        rows    aacab baaaa cabaa
\*     a . a . b        columns aabac caaab bbaaa
\*     b a a a a
\*     a . a . a
\*     c a b a a
\* (and its transpose); baaab fits the middle row but leaves no last column.
Universe ==
    << <<"a","a","b","a","c">>, <<"a","a","c","a","b">>,
       <<"b","a","a","a","a">>, <<"b","a","a","a","b">>,
       <<"b","b","a","a","a">>, <<"c","a","a","a","b">>,
       <<"c","a","b","a","a">> >>

\* Non-decreasing index sequences of length n: the sorted lists, repeats kept
\* (load_words sorts and does not deduplicate).
RECURSIVE SortedIndexLists(_)
SortedIndexLists(n) ==
    IF n = 0 THEN {<<>>}
    ELSE {Append(p[1], p[2]) :
            p \in {q \in SortedIndexLists(n - 1) \X (1..Len(Universe)) :
                     q[1] = <<>> \/ q[1][Len(q[1])] <= q[2]}}

WordLists ==
    {[i \in 1..Len(s) |-> Universe[s[i]]] :
        s \in UNION {SortedIndexLists(n) : n \in 0..MaxWords}}

Letters == {"a", "b", "c"}
\* Python's None, for a word variable not yet bound and for a grid cell.
NoWord == <<>>
None == "None"

VARIABLES
    words, max_attempts_per_level,   \* build_waffle's arguments
    pc,                              \* build_waffle's position
    att,                             \* iterations of the outer for loop begun
    used, w0, w1, w2, w3, w4, w5,    \* its locals
    c1, c2, c3, c4, c5,              \* the shuffled candidate lists
    i1, i2, i3, i4,                  \* the for loops' positions in c1..c4
    grid, across, down,              \* the returned grid and words
    result,                          \* "pending", "None" or "waffle"
    n, max_tries, tries, successes,  \* generate_many's arguments and counters
    gpc,                             \* generate_many's position
    flat21, fixed_count,             \* shuffler's arguments
    fixed_positions, to_shuffle, shuffled_str, fixed_indices,  \* its locals, its result
    redone,                          \* whether the redo branch was taken
    spc                              \* shuffler's position

bvars == <<words, max_attempts_per_level, pc, att, used, w0, w1, w2, w3, w4, w5,
           c1, c2, c3, c4, c5, i1, i2, i3, i4, grid, across, down, result>>
gvars == <<n, max_tries, tries, successes, gpc>>
svars == <<flat21, fixed_count, fixed_positions, to_shuffle, shuffled_str,
           fixed_indices, redone, spc>>
vars == <<bvars, gvars, svars>>

\* ------------------------------------------------- candidates_with_constraints

\* build_pos_index: pos_index[(pos, ch)] is the words with ch at pos, in order.
PosIndex(ws, pos, ch) == SelectSeq(ws, LAMBDA w : w[pos + 1] = ch)

\* Every order random.shuffle can leave a list in.
Shuffle(s) ==
    IF Len(s) = 0 THEN {<<>>}
    ELSE {[i \in 1..Len(s) |-> s[p[i]]] : p \in Permutations(1..Len(s))}

\* posting_lists.sort(key=len); base = posting_lists[0]: the first shortest list.
Base(posting_lists) ==
    LET m == CHOOSE k \in 1..Len(posting_lists) :
                 /\ \A j \in 1..Len(posting_lists) :
                        Len(posting_lists[k]) <= Len(posting_lists[j])
                 /\ \A j \in 1..(k - 1) :
                        Len(posting_lists[j]) > Len(posting_lists[k])
    IN  posting_lists[m]

\* Variant of Ok: the base list is trusted to satisfy the constraints.
OkUnchecked(w, constraints, usedset) ==
    w \notin usedset

\* Variant of Ok: the exclusion set is not consulted.
OkIgnoreUsed(w, constraints, usedset) ==
    \A k \in 1..Len(constraints) : w[constraints[k][1] + 1] = constraints[k][2]

\* The check of one base word: not used, and every constraint holds.
Ok(w, constraints, usedset) ==
    /\ w \notin usedset
    /\ \A k \in 1..Len(constraints) : w[constraints[k][1] + 1] = constraints[k][2]

\* constraints is the dict as a sequence of <<pos, letter>> in insertion order.
\* The set of lists the call can return (one per outcome of the shuffle).
candidates_with_constraints(ws, constraints, usedset) ==
    IF Len(constraints) = 0
    THEN Shuffle(SelectSeq(ws, LAMBDA w : w \notin usedset))
    ELSE LET posting_lists ==
                 [k \in 1..Len(constraints) |->
                     PosIndex(ws, constraints[k][1], constraints[k][2])]
             base == Base(posting_lists)
         IN  Shuffle(SelectSeq(base, LAMBDA w : Ok(w, constraints, usedset)))

\* ---------------------------------------------------------------- the grid

Cells == (0..4) \X (0..4)
\* VALID_MASK: 1 = letter cell, 0 = hole.
VALID_MASK ==
    << <<1,1,1,1,1>>, <<1,0,1,0,1>>, <<1,1,1,1,1>>, <<1,0,1,0,1>>, <<1,1,1,1,1>> >>

EmptyGrid == [rc \in Cells |-> None]

\* for c in range(5): grid[0][c] = w0[c]; grid[2][c] = w2[c]; grid[4][c] = w4[c]
FillRows(g, a0, a2, a4) ==
    [rc \in Cells |->
        IF rc[1] = 0 THEN a0[rc[2] + 1]
        ELSE IF rc[1] = 2 THEN a2[rc[2] + 1]
        ELSE IF rc[1] = 4 THEN a4[rc[2] + 1]
        ELSE g[rc]]

\* Variant of FillCols: the column words written to columns 0, 1, 2.
FillColsAdjacent(g, d1, d3, d5) ==
    [rc \in Cells |->
        IF rc[2] = 0 THEN d1[rc[1] + 1]
        ELSE IF rc[2] = 1 THEN d3[rc[1] + 1]
        ELSE IF rc[2] = 2 THEN d5[rc[1] + 1]
        ELSE g[rc]]

\* for r in range(5): grid[r][0] = w1[r]; grid[r][2] = w3[r]; grid[r][4] = w5[r]
FillCols(g, d1, d3, d5) ==
    [rc \in Cells |->
        IF rc[2] = 0 THEN d1[rc[1] + 1]
        ELSE IF rc[2] = 2 THEN d3[rc[1] + 1]
        ELSE IF rc[2] = 4 THEN d5[rc[1] + 1]
        ELSE g[rc]]

grid_to_masked(g) ==
    [rc \in Cells |-> IF VALID_MASK[rc[1] + 1][rc[2] + 1] = 1 THEN g[rc] ELSE "#"]

\* Row-major reading of the cells that are not "#".
RECURSIVE FlatFrom(_, _)
FlatFrom(masked, k) ==
    IF k = 25 THEN <<>>
    ELSE LET rc == <<k \div 5, k % 5>>
         IN  (IF masked[rc] # "#" THEN <<masked[rc]>> ELSE <<>>)
                 \o FlatFrom(masked, k + 1)

masked_to_flat21(masked) == FlatFrom(masked, 0)

\* ------------------------------------------------------------ build_waffle

\* The locals of a fresh call.
BuildEntry ==
    /\ pc = "start" /\ att = 0 /\ used = {}
    /\ w0 = NoWord /\ w1 = NoWord /\ w2 = NoWord
    /\ w3 = NoWord /\ w4 = NoWord /\ w5 = NoWord
    /\ c1 = <<>> /\ c2 = <<>> /\ c3 = <<>> /\ c4 = <<>> /\ c5 = <<>>
    /\ i1 = 0 /\ i2 = 0 /\ i3 = 0 /\ i4 = 0
    /\ grid = EmptyGrid /\ across = <<>> /\ down = <<>> /\ result = "pending"

\* w0 = random.choice(all_words); used.add(w0).  random.choice of an empty
\* list raises IndexError.
ChooseW0 ==
    /\ pc = "start"
    /\ \/ /\ Len(words) = 0
          /\ pc' = "error"
          /\ UNCHANGED <<w0, used>>
       \/ /\ Len(words) > 0
          /\ \E k \in 1..Len(words) : w0' = words[k]
          /\ used' = used \cup {w0'}
          /\ pc' = "for_attempt"
    /\ UNCHANGED <<words, max_attempts_per_level, att, w1, w2, w3, w4, w5,
                   c1, c2, c3, c4, c5, i1, i2, i3, i4, grid, across, down, result, gvars, svars>>

\* for _ in range(max_attempts_per_level): ... ; return None (line 183)
ForAttempt ==
    /\ pc = "for_attempt"
    /\ \/ /\ att < max_attempts_per_level
          /\ att' = att + 1
          /\ pc' = "calc1"
          /\ UNCHANGED result
       \/ /\ att >= max_attempts_per_level
          /\ result' = "None"
          /\ pc' = "returned"
          /\ UNCHANGED att
    /\ UNCHANGED <<words, max_attempts_per_level, used, w0, w1, w2, w3, w4, w5,
                   c1, c2, c3, c4, c5, i1, i2, i3, i4, grid, across, down, gvars, svars>>

\* c1 = candidates_with_constraints(..., {0: w0[0]}, used); if not c1: return None
CalcC1 ==
    /\ pc = "calc1"
    /\ \E c \in candidates_with_constraints(words, << <<0, w0[1]>> >>, used) :
          /\ c1' = c
          /\ \/ /\ Len(c) = 0
                /\ result' = "None"
                /\ pc' = "returned"
                /\ UNCHANGED i1
             \/ /\ Len(c) > 0
                /\ i1' = 1
                /\ pc' = "iter1"
                /\ UNCHANGED result
    /\ UNCHANGED <<words, max_attempts_per_level, att, used, w0, w1, w2, w3, w4, w5,
                   c2, c3, c4, c5, i2, i3, i4, grid, across, down, gvars, svars>>

\* for w1 in c1: used.add(w1) ...; after the loop: return None (line 181)
IterW1 ==
    /\ pc = "iter1"
    /\ \/ /\ i1 <= Len(c1)
          /\ w1' = c1[i1]
          /\ used' = used \cup {c1[i1]}
          /\ pc' = "calc2"
          /\ UNCHANGED result
       \/ /\ i1 > Len(c1)
          /\ result' = "None"
          /\ pc' = "returned"
          /\ UNCHANGED <<w1, used>>
    /\ UNCHANGED <<words, max_attempts_per_level, att, w0, w2, w3, w4, w5,
                   c1, c2, c3, c4, c5, i1, i2, i3, i4, grid, across, down, gvars, svars>>

\* c2 = candidates_with_constraints(..., {0: w1[2]}, used)
\* if not c2: used.remove(w1); continue
CalcC2 ==
    /\ pc = "calc2"
    /\ \E c \in candidates_with_constraints(words, << <<0, w1[3]>> >>, used) :
          /\ c2' = c
          /\ \/ /\ Len(c) = 0
                /\ used' = used \ {w1}
                /\ i1' = i1 + 1
                /\ pc' = "iter1"
                /\ UNCHANGED i2
             \/ /\ Len(c) > 0
                /\ i2' = 1
                /\ pc' = "iter2"
                /\ UNCHANGED <<used, i1>>
    /\ UNCHANGED <<words, max_attempts_per_level, att, w0, w1, w2, w3, w4, w5,
                   c1, c3, c4, c5, i3, i4, grid, across, down, result, gvars, svars>>

\* for w2 in c2: used.add(w2) ...; after the loop: used.remove(w1) (line 178)
IterW2 ==
    /\ pc = "iter2"
    /\ \/ /\ i2 <= Len(c2)
          /\ w2' = c2[i2]
          /\ used' = used \cup {c2[i2]}
          /\ pc' = "calc3"
          /\ UNCHANGED i1
       \/ /\ i2 > Len(c2)
          /\ used' = used \ {w1}
          /\ i1' = i1 + 1
          /\ pc' = "iter1"
          /\ UNCHANGED w2
    /\ UNCHANGED <<words, max_attempts_per_level, att, w0, w1, w3, w4, w5,
                   c1, c2, c3, c4, c5, i2, i3, i4, grid, across, down, result, gvars, svars>>

\* c3 = candidates_with_constraints(..., {0: w0[2], 2: w2[2]}, used)
\* if not c3: used.remove(w2); continue
CalcC3 ==
    /\ pc = "calc3"
    /\ \E c \in candidates_with_constraints(
                    words, << <<0, w0[3]>>, <<2, w2[3]>> >>, used) :
          /\ c3' = c
          /\ \/ /\ Len(c) = 0
                /\ used' = used \ {w2}
                /\ i2' = i2 + 1
                /\ pc' = "iter2"
                /\ UNCHANGED i3
             \/ /\ Len(c) > 0
                /\ i3' = 1
                /\ pc' = "iter3"
                /\ UNCHANGED <<used, i2>>
    /\ UNCHANGED <<words, max_attempts_per_level, att, w0, w1, w2, w3, w4, w5,
                   c1, c2, c4, c5, i1, i4, grid, across, down, result, gvars, svars>>

\* for w3 in c3: used.add(w3) ...; after the loop: used.remove(w2) (line 177)
IterW3 ==
    /\ pc = "iter3"
    /\ \/ /\ i3 <= Len(c3)
          /\ w3' = c3[i3]
          /\ used' = used \cup {c3[i3]}
          /\ pc' = "calc4"
          /\ UNCHANGED i2
       \/ /\ i3 > Len(c3)
          /\ used' = used \ {w2}
          /\ i2' = i2 + 1
          /\ pc' = "iter2"
          /\ UNCHANGED w3
    /\ UNCHANGED <<words, max_attempts_per_level, att, w0, w1, w2, w4, w5,
                   c1, c2, c3, c4, c5, i1, i3, i4, grid, across, down, result, gvars, svars>>

\* c4 = candidates_with_constraints(..., {0: w1[4], 2: w3[4]}, used)
\* if not c4: used.remove(w3); continue
CalcC4 ==
    /\ pc = "calc4"
    /\ \E c \in candidates_with_constraints(
                    words, << <<0, w1[5]>>, <<2, w3[5]>> >>, used) :
          /\ c4' = c
          /\ \/ /\ Len(c) = 0
                /\ used' = used \ {w3}
                /\ i3' = i3 + 1
                /\ pc' = "iter3"
                /\ UNCHANGED i4
             \/ /\ Len(c) > 0
                /\ i4' = 1
                /\ pc' = "iter4"
                /\ UNCHANGED <<used, i3>>
    /\ UNCHANGED <<words, max_attempts_per_level, att, w0, w1, w2, w3, w4, w5,
                   c1, c2, c3, c5, i1, i2, grid, across, down, result, gvars, svars>>

\* Variant of IterW4: the exhausted loop leaves w3 marked.
IterW4NoUnmark ==
    /\ pc = "iter4"
    /\ \/ /\ i4 <= Len(c4)
          /\ w4' = c4[i4]
          /\ used' = used \cup {c4[i4]}
          /\ pc' = "calc5"
          /\ UNCHANGED i3
       \/ /\ i4 > Len(c4)
          /\ i3' = i3 + 1
          /\ pc' = "iter3"
          /\ UNCHANGED <<w4, used>>
    /\ UNCHANGED <<words, max_attempts_per_level, att, w0, w1, w2, w3, w5,
                   c1, c2, c3, c4, c5, i1, i2, i4, grid, across, down, result,
                   gvars, svars>>

\* for w4 in c4: used.add(w4) ...; after the loop: used.remove(w3) (line 176)
IterW4 ==
    /\ pc = "iter4"
    /\ \/ /\ i4 <= Len(c4)
          /\ w4' = c4[i4]
          /\ used' = used \cup {c4[i4]}
          /\ pc' = "calc5"
          /\ UNCHANGED i3
       \/ /\ i4 > Len(c4)
          /\ used' = used \ {w3}
          /\ i3' = i3 + 1
          /\ pc' = "iter3"
          /\ UNCHANGED w4
    /\ UNCHANGED <<words, max_attempts_per_level, att, w0, w1, w2, w3, w5,
                   c1, c2, c3, c4, c5, i1, i2, i4, grid, across, down, result, gvars, svars>>

\* Variant of CalcC5: an empty c5 ends the attempt instead of the candidate.
CalcC5GiveUp ==
    /\ pc = "calc5"
    /\ \E c \in candidates_with_constraints(
                    words, << <<0, w0[5]>>, <<2, w2[5]>>, <<4, w4[5]>> >>, used) :
          /\ c5' = c
          /\ \/ /\ Len(c) = 0
                /\ result' = "None"
                /\ pc' = "returned"
                /\ UNCHANGED <<w5, used, i4>>
             \/ /\ Len(c) > 0
                /\ w5' = c[1]
                /\ used' = used \cup {c[1]}
                /\ pc' = "assemble"
                /\ UNCHANGED <<i4, result>>
    /\ UNCHANGED <<words, max_attempts_per_level, att, w0, w1, w2, w3, w4,
                   c1, c2, c3, c4, i1, i2, i3, grid, across, down, gvars, svars>>

\* c5 = candidates_with_constraints(..., {0: w0[4], 2: w2[4], 4: w4[4]}, used)
\* if not c5: used.remove(w4); continue
\* w5 = c5[0]; used.add(w5)
CalcC5 ==
    /\ pc = "calc5"
    /\ \E c \in candidates_with_constraints(
                    words, << <<0, w0[5]>>, <<2, w2[5]>>, <<4, w4[5]>> >>, used) :
          /\ c5' = c
          /\ \/ /\ Len(c) = 0
                /\ used' = used \ {w4}
                /\ i4' = i4 + 1
                /\ pc' = "iter4"
                /\ UNCHANGED w5
             \/ /\ Len(c) > 0
                /\ w5' = c[1]
                /\ used' = used \cup {c[1]}
                /\ pc' = "assemble"
                /\ UNCHANGED i4
    /\ UNCHANGED <<words, max_attempts_per_level, att, w0, w1, w2, w3, w4,
                   c1, c2, c3, c4, i1, i2, i3, grid, across, down, result, gvars, svars>>

\* grid = [[None]*5 ...]; the rows, then the columns; return grid, across, down
Assemble ==
    /\ pc = "assemble"
    /\ grid' = FillCols(FillRows(EmptyGrid, w0, w2, w4), w1, w3, w5)
    /\ across' = <<w0, w2, w4>>
    /\ down' = <<w1, w3, w5>>
    /\ result' = "waffle"
    /\ pc' = "returned"
    /\ UNCHANGED <<words, max_attempts_per_level, att, used, w0, w1, w2, w3, w4, w5,
                   c1, c2, c3, c4, c5, i1, i2, i3, i4, gvars, svars>>

BuildStep ==
    \/ ChooseW0 \/ ForAttempt
    \/ CalcC1 \/ IterW1 \/ CalcC2 \/ IterW2 \/ CalcC3 \/ IterW3
    \/ CalcC4 \/ IterW4 \/ CalcC5 \/ Assemble


\* ------------------------------------------------------------ generate_many

\* build_waffle(words, pos_index): a fresh call, its locals unbound.
CallBuild ==
    /\ pc' = "start" /\ att' = 0 /\ used' = {}
    /\ w0' = NoWord /\ w1' = NoWord /\ w2' = NoWord
    /\ w3' = NoWord /\ w4' = NoWord /\ w5' = NoWord
    /\ c1' = <<>> /\ c2' = <<>> /\ c3' = <<>> /\ c4' = <<>> /\ c5' = <<>>
    /\ i1' = 0 /\ i2' = 0 /\ i3' = 0 /\ i4' = 0
    /\ grid' = EmptyGrid /\ across' = <<>> /\ down' = <<>> /\ result' = "pending"

\* while successes < n and tries < max_tries: tries += 1; build_waffle(...)
\* and, the loop left, the closing print.
GenWhile ==
    /\ gpc = "while"
    /\ \/ /\ successes < n /\ tries < max_tries
          /\ tries' = tries + 1
          /\ CallBuild
          /\ gpc' = "in_build"
       \/ /\ ~(successes < n /\ tries < max_tries)
          /\ gpc' = "done"
          /\ UNCHANGED <<tries, pc, att, used, w0, w1, w2, w3, w4, w5,
                         c1, c2, c3, c4, c5, i1, i2, i3, i4,
                         grid, across, down, result>>
    /\ UNCHANGED <<words, max_attempts_per_level, n, max_tries, successes, svars>>

\* if attempt is None: continue; else write the example; successes += 1
GenAfterBuild ==
    /\ gpc = "in_build"
    /\ pc = "returned"
    /\ \/ /\ result = "None"
          /\ UNCHANGED successes
       \/ /\ result = "waffle"
          /\ successes' = successes + 1
    /\ pc' = "idle"
    /\ gpc' = "while"
    /\ UNCHANGED <<words, max_attempts_per_level, att, used, w0, w1, w2, w3, w4, w5,
                   c1, c2, c3, c4, c5, i1, i2, i3, i4, grid, across, down, result,
                   n, max_tries, tries, svars>>

\* An exception raised in build_waffle is caught nowhere: it leaves the loop,
\* the with block and generate_many.
GenRaise ==
    /\ gpc = "in_build"
    /\ pc = "error"
    /\ pc' = "idle"
    /\ gpc' = "error"
    /\ UNCHANGED <<words, max_attempts_per_level, att, used, w0, w1, w2, w3, w4, w5,
                   c1, c2, c3, c4, c5, i1, i2, i3, i4, grid, across, down, result,
                   n, max_tries, tries, successes, svars>>

\* ----------------------------------------------------------------- shuffler

Range(f) == {f[i] : i \in DOMAIN f}

\* indices = list(range(len(flat21)))
Indices(flat) == 0..(Len(flat) - 1)

\* Variant of RandomSample: drawn with replacement.
RandomSampleWithReplacement(indices, k) == [1..k -> indices]

\* random.sample(indices, k): every list of k distinct elements.
RandomSample(indices, k) ==
    {smp \in [1..k -> indices] : \A i, j \in 1..k : i # j => smp[i] # smp[j]}

\* to_shuffle: the letters at the positions outside fixed, in index order.
RECURSIVE Unfixed(_, _, _)
Unfixed(flat, fixed, i) ==
    IF i >= Len(flat) THEN <<>>
    ELSE (IF i \notin fixed THEN <<flat[i + 1]>> ELSE <<>>)
             \o Unfixed(flat, fixed, i + 1)

\* The reassembly loop from index i on, shuffled_ind letters of ts consumed.
RECURSIVE ReassembleFrom(_, _, _, _, _)
ReassembleFrom(flat, fixed, ts, i, shuffled_ind) ==
    IF i >= Len(flat) THEN <<>>
    ELSE IF i \in fixed
         THEN <<flat[i + 1]>> \o ReassembleFrom(flat, fixed, ts, i + 1, shuffled_ind)
         ELSE <<ts[shuffled_ind + 1]>>
                  \o ReassembleFrom(flat, fixed, ts, i + 1, shuffled_ind + 1)

\* Variant of Reassemble: shuffled_ind is never advanced.
ReassembleStuck(flat, fixed, ts) ==
    [k \in 1..Len(flat) |-> IF (k - 1) \in fixed THEN flat[k] ELSE ts[1]]

Reassemble(flat, fixed, ts) == ReassembleFrom(flat, fixed, ts, 0, 0)

\* sorted(list(S))
RECURSIVE Sorted(_)
Sorted(S) ==
    IF S = {} THEN <<>>
    ELSE LET m == CHOOSE x \in S : \A y \in S : x <= y
         IN  <<m>> \o Sorted(S \ {m})

\* fixed_positions = set(random.sample(indices, fixed_count)); fixed_map; to_shuffle
Sample ==
    /\ spc = "start"
    /\ \E smp \in RandomSample(Indices(flat21), fixed_count) :
          /\ fixed_positions' = Range(smp)
          /\ to_shuffle' = Unfixed(flat21, Range(smp), 0)
    /\ spc' = "shuffle1"
    /\ UNCHANGED <<flat21, fixed_count, shuffled_str, fixed_indices, redone,
                   bvars, gvars>>

\* random.shuffle(to_shuffle)
Shuffle1 ==
    /\ spc = "shuffle1"
    /\ to_shuffle' \in Shuffle(to_shuffle)
    /\ spc' = "assemble1"
    /\ UNCHANGED <<flat21, fixed_count, fixed_positions, shuffled_str, fixed_indices,
                   redone, bvars, gvars>>

\* shuffled = [...]; shuffled_str = "".join(shuffled)
Reassemble1 ==
    /\ spc = "assemble1"
    /\ shuffled_str' = Reassemble(flat21, fixed_positions, to_shuffle)
    /\ spc' = "check"
    /\ UNCHANGED <<flat21, fixed_count, fixed_positions, to_shuffle, fixed_indices,
                   redone, bvars, gvars>>

\* if shuffled_str == flat21: random.shuffle(to_shuffle)
CheckSolved ==
    /\ spc = "check"
    /\ \/ /\ shuffled_str = flat21
          /\ to_shuffle' \in Shuffle(to_shuffle)
          /\ redone' = TRUE
          /\ spc' = "assemble2"
       \/ /\ shuffled_str # flat21
          /\ spc' = "return"
          /\ UNCHANGED <<to_shuffle, redone>>
    /\ UNCHANGED <<flat21, fixed_count, fixed_positions, shuffled_str, fixed_indices,
                   bvars, gvars>>

\* the second reassembly, in the if
Reassemble2 ==
    /\ spc = "assemble2"
    /\ shuffled_str' = Reassemble(flat21, fixed_positions, to_shuffle)
    /\ spc' = "return"
    /\ UNCHANGED <<flat21, fixed_count, fixed_positions, to_shuffle, fixed_indices,
                   redone, bvars, gvars>>

\* return shuffled_str, sorted(list(fixed_positions))
Return ==
    /\ spc = "return"
    /\ fixed_indices' = Sorted(fixed_positions)
    /\ spc' = "returned"
    /\ UNCHANGED <<flat21, fixed_count, fixed_positions, to_shuffle, shuffled_str,
                   redone, bvars, gvars>>

\* ----------------------------------------------------------- specifications

BuildIdle ==
    /\ pc = "idle" /\ att = 0 /\ used = {}
    /\ w0 = NoWord /\ w1 = NoWord /\ w2 = NoWord
    /\ w3 = NoWord /\ w4 = NoWord /\ w5 = NoWord
    /\ c1 = <<>> /\ c2 = <<>> /\ c3 = <<>> /\ c4 = <<>> /\ c5 = <<>>
    /\ i1 = 0 /\ i2 = 0 /\ i3 = 0 /\ i4 = 0
    /\ grid = EmptyGrid /\ across = <<>> /\ down = <<>> /\ result = "pending"

GenIdle ==
    n = 0 /\ max_tries = 0 /\ tries = 0 /\ successes = 0 /\ gpc = "idle"

ShufflerIdle ==
    /\ flat21 = <<>> /\ fixed_count = 0 /\ fixed_positions = {}
    /\ to_shuffle = <<>> /\ shuffled_str = <<>> /\ fixed_indices = <<>>
    /\ redone = FALSE /\ spc = "idle"

\* A direct call build_waffle(words, pos_index, max_attempts_per_level).
InitBuild ==
    /\ words \in WordLists
    /\ max_attempts_per_level \in 0..MaxAttempts
    /\ BuildEntry
    /\ GenIdle
    /\ ShufflerIdle

NextBuild == BuildStep

SpecBuild == InitBuild /\ [][NextBuild]_vars

\* The word lists without a repeated word.
DistinctWordLists ==
    {ws \in WordLists : \A i, j \in 1..Len(ws) : i # j => ws[i] # ws[j]}

\* generate_many(n, max_tries=...), load_words having returned words.
InitGen ==
    /\ words \in DistinctWordLists
    /\ max_attempts_per_level = DefaultAttempts
    /\ BuildIdle
    /\ n \in 0..MaxN
    /\ max_tries \in 0..MaxTries
    /\ tries = 0 /\ successes = 0 /\ gpc = "while"
    /\ ShufflerIdle

NextGen == GenWhile \/ GenAfterBuild \/ GenRaise \/ BuildStep

SpecGen == InitGen /\ [][NextGen]_vars

Targets == UNION {[1..k -> Letters] : k \in 0..MaxLen}

\* A call shuffler(flat21, fixed_count) with 0 <= fixed_count <= len(flat21).
InitShuffle ==
    /\ flat21 \in Targets
    /\ fixed_count \in 0..Len(flat21)
    /\ fixed_positions = {} /\ to_shuffle = <<>> /\ shuffled_str = <<>>
    /\ fixed_indices = <<>> /\ redone = FALSE /\ spc = "start"
    /\ words = <<>> /\ max_attempts_per_level = 0
    /\ BuildIdle
    /\ GenIdle

NextShuffle ==
    Sample \/ Shuffle1 \/ Reassemble1 \/ CheckSolved \/ Reassemble2 \/ Return

SpecShuffle == InitShuffle /\ [][NextShuffle]_vars

\* ------------------------------------------------------------- properties

\* The nine intersection constraints on (w0, ..., w5), positions 0-based in
\* the program and 1-based here.
Intersections(x0, x1, x2, x3, x4, x5) ==
    /\ x1[1] = x0[1]
    /\ x2[1] = x1[3]
    /\ x3[1] = x0[3] /\ x3[3] = x2[3]
    /\ x4[1] = x1[5] /\ x4[3] = x3[5]
    /\ x5[1] = x0[5] /\ x5[3] = x2[5] /\ x5[5] = x4[5]

Returned == pc = "returned"
Solved == pc = "returned" /\ result = "waffle"
Failed == pc = "returned" /\ result = "None"

\* C1: whenever build_waffle returns a result, across = (w0, w2, w4) and
\* down = (w1, w3, w5) satisfy all nine intersection constraints.
C1_IntersectionsHold ==
    Solved =>
        /\ Len(across) = 3 /\ Len(down) = 3
        /\ \A k \in 1..3 : Len(across[k]) = 5 /\ Len(down[k]) = 5
        /\ Intersections(across[1], down[1], across[2], down[2], across[3], down[3])

\* A grid returned although an unused word of the list meets the first
\* constraint of the last slot and not its third.
C1_Witness ==
    /\ Solved
    /\ \E k \in 1..Len(words) :
          /\ words[k][1] = w0[5] /\ words[k][5] # w4[5]
          /\ words[k] \notin used

\* C2: whenever build_waffle returns a result, the six words are pairwise
\* distinct.
C2_PairwiseDistinct ==
    Solved =>
        LET six == <<across[1], down[1], across[2], down[2], across[3], down[3]>>
        IN  \A i, j \in 1..6 : i # j => six[i] # six[j]

\* A grid returned from a word list that holds a word twice.
C2_Witness ==
    /\ Solved
    /\ \E i, j \in 1..Len(words) : i # j /\ words[i] = words[j] /\ words[i] \in used

Holes == {<<1, 1>>, <<1, 3>>, <<3, 1>>, <<3, 3>>}

CompletionExists(ws, x0) ==
    LET W == Range(ws)
    IN  \E x1 \in W :
          /\ x1 # x0 /\ x1[1] = x0[1]
          /\ \E x2 \in W :
                /\ x2 \notin {x0, x1} /\ x2[1] = x1[3]
                /\ \E x3 \in W :
                      /\ x3 \notin {x0, x1, x2} /\ x3[1] = x0[3] /\ x3[3] = x2[3]
                      /\ \E x4 \in W :
                            /\ x4 \notin {x0, x1, x2, x3}
                            /\ x4[1] = x1[5] /\ x4[3] = x3[5]
                            /\ \E x5 \in W :
                                  /\ x5 \notin {x0, x1, x2, x3, x4}
                                  /\ Intersections(x0, x1, x2, x3, x4, x5)

\* C9: with max_attempts_per_level >= 1, build_waffle returns None only if
\* the w0 it picked has no completion, and returns a grid whenever it has one.
C9_SearchComplete ==
    (Returned /\ max_attempts_per_level >= 1) =>
        (result = "waffle" <=> CompletionExists(words, w0))

\* A grid returned after a candidate for w2 ran into an empty c5 and the
\* search came back through the w4 and w3 loops.
C9_Witness ==
    /\ Solved
    /\ max_attempts_per_level >= 1
    /\ i2 > 1
    /\ \E k \in 1..(i2 - 1) : c2[k] = Universe[4]

\* C10: used is exactly the words chosen for the slots before s whenever the
\* candidates of slot s are computed or the next candidate of slot s is
\* taken, and is {w0} when the attempt returns None.
C10_UsedDiscipline ==
    /\ pc \in {"for_attempt", "calc1", "iter1"} => used = {w0}
    /\ pc \in {"calc2", "iter2"} => used = {w0, w1}
    /\ pc \in {"calc3", "iter3"} => used = {w0, w1, w2}
    /\ pc \in {"calc4", "iter4"} => used = {w0, w1, w2, w3}
    /\ pc = "calc5" => used = {w0, w1, w2, w3, w4}
    /\ Failed => used = {w0}

\* None returned after the search had been four slots deep.
C10_Witness ==
    /\ Failed
    /\ w4 # NoWord
    /\ i1 > 1

\* C6: a build attempt over any word list, the empty one included, ends by
\* returning a grid or None, never in an error.
C6_BuildNeverRaises ==
    pc # "error"

\* C7: successes <= tries <= max_tries and successes <= n throughout; the
\* loop of generate_many stops with successes = n, or with tries = max_tries
\* and successes < n, and never in an error.
C7_DriverStops ==
    /\ successes <= tries /\ tries <= max_tries /\ successes <= n
    /\ gpc # "error"
    /\ gpc \in {"done", "error"} =>
          \/ successes = n
          \/ tries = max_tries /\ successes < n

\* Two positions outside fixed_positions carry different letters: some
\* order of to_shuffle reassembles to a string other than the target.
CanDiffer ==
    \E i, j \in Indices(flat21) \ fixed_positions : flat21[i + 1] # flat21[j + 1]

\* C3: the string shuffler returns differs from the target, whatever the
\* first shuffle and the redo produce.  Stated for the calls in which a
\* differing string exists; in the others every result equals the target.
C3_ShuffledDiffers ==
    (spc = "returned" /\ CanDiffer) => shuffled_str # flat21

\* C4: shuffler returns exactly fixed_count indices, each in
\* 0..len(target)-1, in strictly ascending order, and the shuffled string
\* carries the target's letter at each of them.
C4_FixedIndices ==
    spc = "returned" =>
        /\ Len(fixed_indices) = fixed_count
        /\ \A k \in 1..Len(fixed_indices) :
              /\ fixed_indices[k] \in 0..(Len(flat21) - 1)
              /\ fixed_indices[k] + 1 \in DOMAIN shuffled_str
              /\ shuffled_str[fixed_indices[k] + 1] = flat21[fixed_indices[k] + 1]
        /\ \A k \in 1..(Len(fixed_indices) - 1) :
              fixed_indices[k] < fixed_indices[k + 1]

\* A return on the redo path with two or more fixed positions and letters that
\* moved elsewhere.
C4_Witness ==
    /\ spc = "returned"
    /\ redone
    /\ fixed_count >= 2
    /\ shuffled_str # flat21

\* The number of positions outside fixed at which str carries ch.
CountOutside(str, fixed, ch) ==
    Cardinality({k \in 1..Len(str) : (k - 1) \notin fixed /\ str[k] = ch})

\* C5: the returned string is as long as the target and carries, at the
\* positions that are not fixed, the same multiset of letters.
C5_SameLetters ==
    spc = "returned" =>
        /\ Len(shuffled_str) = Len(flat21)
        /\ \A ch \in Letters :
              CountOutside(shuffled_str, Range(fixed_indices), ch)
                  = CountOutside(flat21, Range(fixed_indices), ch)

\* A return on the redo path for a target with a repeated letter, a fixed
\* position and a changed string.
C5_Witness ==
    /\ spc = "returned"
    /\ redone
    /\ fixed_count >= 1
    /\ shuffled_str # flat21
    /\ \E i, j \in 1..Len(flat21) : i # j /\ flat21[i] = flat21[j]

====
